---- MODULE Spec2Model ----
(***************************************************************************)
(* Model of the spotify relay server: the memoizing single-flight cache    *)
(* (memo), the SpotifyInteract read paths that go through it, the HTTP     *)
(* handlers of the /api router, the mutable session slot sdk.current, the  *)
(* centralised polling tick and the socket.io broadcast sink.              *)
(*                                                                         *)
(* JavaScript runs one job at a time: a job runs until it awaits a promise *)
(* that is not settled yet, and continuations of a settled promise run as  *)
(* microtasks before any other event. So every action below is one event   *)
(* (a request arriving, an upstream call settling, the poll timer firing,  *)
(* a socket connecting) together with everything that runs until every     *)
(* function involved is suspended on an upstream call again.               *)
(***************************************************************************)
EXTENDS Integers, Sequences, FiniteSets, Bags, TLC

\* ---------------------------------------------------------------- bounds
MaxTime == 3      \* the clock runs 0..MaxTime
CacheTtl == 2     \* the memo's time-to-live, in clock units
MaxReq == 2       \* HTTP requests in flight at once
MaxCalls == 3     \* upstream calls issued in one run (call ids 1..MaxCalls)
MaxSession == 1   \* provider sessions installed over time (ids 1..MaxSession)
MaxClient == 2    \* sockets connected at once (slots 1..MaxClient)
MaxQueueCalls == 4 \* upstream calls issued in one run of the queue environment

Sessions == 1..MaxSession
ClientIds == 1..MaxClient

\* sdk.current === null
NoSession == 0
\* no upstream call / no promise
NoCall == 0
\* the {} that getContext returns for an unknown type or a failed lookup
EmptyContext == 0
\* a response without a context field ({noTrack: true}, or a catalogue response)
NoContext == -1

\* ---------------------------------------------------------------- inputs
ArtistIds == {"a1"}
TrackIds == {"t1"}
AlbumIds == {"b1"}
PlainQueries == {"q1"}
\* The markets a caller of search.query may pass.
Markets == {"GB", "US"}
ContextUris == {"spotify:playlist:p1"}
\* The uris clients ask to add to the queue.
AddUris == {"spotify:track:t1"}
\* What the provider's queue may hold at the start.
InitialQueues == {<<>>, <<"spotify:episode:e2">>, <<"spotify:track:t1">>}
\* What the provider reports as currently playing: nothing, a track, an episode.
NotPlaying == "none"
Playing == {NotPlaying, "spotify:track:t2", "spotify:episode:e1"}

\* Strings that SpotifyRegExp matches, with the (type, id) it captures.
SpotifyUrls ==
    { [url |-> "https://open.spotify.com/track/t1", type |-> "track", id |-> "t1"],
      [url |-> "https://open.spotify.com/artist/a1", type |-> "artist", id |-> "a1"],
      [url |-> "https://open.spotify.com/album/b1", type |-> "album", id |-> "b1"] }

isSpotifyUrl(q) == \E u \in SpotifyUrls : u.url = q

SpotifyUrl(q) == CHOOSE u \in SpotifyUrls : u.url = q

\* The queries the modelled clients send: a plain one and a track's URL.
SentQueries == PlainQueries \cup { u.url : u \in {x \in SpotifyUrls : x.type = "track"} }

\* ---------------------------------------------------------------- memo
\* memo.key(...parts): the parts joined by the separator.
RECURSIVE memoKey(_)
memoKey(parts) ==
    IF Len(parts) = 0 THEN ""
    ELSE IF Len(parts) = 1 THEN parts[1]
    ELSE parts[1] \o ":" \o memoKey(Tail(parts))

\* The key a memoized playback snapshot would have (the code has none).
SnapshotKey == memoKey(<<"info", "current">>)

AllKeys ==
    { memoKey(<<"artist", "tracks", id>>) : id \in ArtistIds }
    \cup { memoKey(<<"album", id>>) : id \in AlbumIds }
    \cup { memoKey(<<"track", id>>) : id \in TrackIds }
    \cup { memoKey(<<"search", q>>) : q \in PlainQueries }
    \cup ContextUris
    \cup {SnapshotKey}

\* Key of a call that does not go through the memo.
NoKey == ""

VARIABLES
    now,        \* the clock (Date.now())
    sdk,        \* sdk.current: NoSession or the installed session
    store,      \* memo: key -> [has, value, expiresAt]
    pending,    \* memo: key -> the in-flight resolution's call id, or NoCall
    upstream,   \* provider calls in flight: [id, via, op, arg, sess, key, by]
    nextCall,   \* id of the next provider call
    reqs,       \* HTTP requests awaiting a call: a bag of [pc, route, arg, call, play, own]
    timer,      \* whether asyncInterval's timer is armed
    running,    \* executions of the polling callback in flight: [pc, call, play, own]
    conn,       \* socket slot -> "free" or "open"
    delivered,  \* socket slot -> the messages the last event delivered to it, in order
    queue,      \* the provider's playback queue (queue.queue): a sequence of uris
    opts,       \* the options object given to run(io, sdk, opts)
    wakes,      \* history: the number of wakes of the polling callback so far, mod 2
    ev          \* history: the event that led to this state, with what it observed and did

vars == <<now, sdk, store, pending, upstream, nextCall, reqs, timer, running,
          conn, delivered, queue, opts, wakes, ev>>

memoVars == <<store, pending, upstream, nextCall>>
sinkVars == <<conn>>
providerVars == <<queue>>
configVars == <<opts>>
pollVars == <<timer, running, wakes>>

\* An options object with no key set: {}.
NoOpts == [k \in {} |-> TRUE]

DEFAULT_OPTS ==
    [market |-> "GB", searchQueryLimit |-> 10, centralisedPolling |-> TRUE,
     centralisedPollingTimer |-> 5000]

\* The options objects run may be given.
GivenOpts ==
    { NoOpts,
      [centralisedPolling |-> FALSE],
      [centralisedPolling |-> FALSE, centralisedPollingTimer |-> 1000] }

\* const options = {...DEFAULT_OPTS, ...opts}
options ==
    [k \in DOMAIN DEFAULT_OPTS |-> IF k \in DOMAIN opts THEN opts[k] ELSE DEFAULT_OPTS[k]]

\* Mutant: the interval is started whatever the option says.
pollingStarted_always == TRUE

\* if (options.centralisedPolling) asyncInterval(...)
pollingStarted == options.centralisedPolling

NoEntry == [has |-> FALSE, value |-> 0, expiresAt |-> 0]

\* The part of the state that memo.use and the provider calls read and write.
World == [store |-> store, pending |-> pending, upstream |-> upstream, nextCall |-> nextCall]

\* Mutant: a stored value is served whatever its age.
Fresh_noExpiry(w, k) == w.store[k].has

\* A stored value is served until its expiry has passed.
Fresh(w, k) == w.store[k].has /\ now <= w.store[k].expiresAt

\* via: the SpotifyInteract function that makes the call; by: "http" for a
\* request handler, "poll" for the polling callback.
Call(w, via, op, arg, s, k, by) ==
    [id |-> w.nextCall, via |-> via, op |-> op, arg |-> arg, sess |-> s, key |-> k, by |-> by]

\* A provider call made directly (not through the memo): the caller awaits it.
Direct(w, via, op, arg, s, by) ==
    [st |-> "wait", key |-> NoKey, val |-> 0, call |-> w.nextCall, own |-> TRUE,
     w |-> [w EXCEPT !.upstream = @ \cup {Call(w, via, op, arg, s, NoKey, by)},
                     !.nextCall = @ + 1]]

\* memo.use(key, fetcher): a fresh value is returned without calling fetcher; a
\* resolution in flight is joined; otherwise fetcher is called and its promise
\* recorded as the resolution in flight for the key. own: this caller started
\* the resolution it awaits.
memoUse(w, k, via, op, arg, s, by) ==
    IF Fresh(w, k)
    THEN [st |-> "hit", key |-> k, val |-> w.store[k].value, call |-> NoCall,
          own |-> FALSE, w |-> w]
    ELSE IF w.pending[k] # NoCall
    THEN [st |-> "wait", key |-> k, val |-> 0, call |-> w.pending[k], own |-> FALSE, w |-> w]
    ELSE [st |-> "wait", key |-> k, val |-> 0, call |-> w.nextCall, own |-> TRUE,
          w |-> [w EXCEPT !.upstream = @ \cup {Call(w, via, op, arg, s, k, by)},
                          !.pending[k] = w.nextCall,
                          !.nextCall = @ + 1]]

\* The memo's bookkeeping when the fetcher behind key k settles: on success the
\* value is stored with expiresAt = now + TTL, on failure nothing is stored; the
\* in-flight marker is cleared either way.
memoSettle(w, k, ok, v) ==
    IF k = NoKey THEN w
    ELSE [w EXCEPT !.pending[k] = NoCall,
                   !.store[k] =
                       IF ok THEN [has |-> TRUE, value |-> v, expiresAt |-> now + CacheTtl]
                       ELSE @]

\* Mutant: a failure reaches only the caller that started the resolution.
settles_starterOnFailure(c, ok, q) == q.call = c.id /\ (ok \/ q.own)

\* Whether the settling of call c settles what q awaits: every caller that
\* started or joined the resolution gets its outcome, success or failure.
settles(c, ok, q) == q.call = c.id

\* ------------------------------------------------------- SpotifyInteract
ContextTypes == {"playlist", "artist", "album", "show"}

UriTypes == ContextTypes \cup {"track", "episode"}

UriIds == {"p1", "a1", "b1", "t1", "t2", "e1", "e2"}

\* deconstructUri: const [_, type, id] = uri.split(':')
deconstructUri(uri) ==
    CHOOSE p \in [type : UriTypes, id : UriIds] :
        memoKey(<<"spotify", p.type, p.id>>) = uri

\* The provider method getContext calls for a type.
ContextOp(type) ==
    CASE type = "playlist" -> "playlists.getPlaylist"
      [] type = "artist" -> "artists.get"
      [] type = "album" -> "albums.get"
      [] type = "show" -> "shows.get"
      [] OTHER -> "none"

\* What getContext resolves to once its provider call has settled: the trimmed
\* entity, or {} from the catch block. It never rejects.
getContextResult(ok, v) ==
    [ok |-> TRUE, val |-> IF ok THEN v ELSE EmptyContext]

\* What a plain fetcher (() => sdk.x.get(id)) settles with.
plainResult(ok, v) == [ok |-> ok, val |-> v]

\* Mutant: the provider is called without going through the memo.
topTracks_direct(w, s, id, by) ==
    Direct(w, "artist.topTracks", "artists.topTracks", id, s, by)

\* artist.topTracks
topTracks(w, s, id, by) ==
    memoUse(w, memoKey(<<"artist", "tracks", id>>), "artist.topTracks",
            "artists.topTracks", id, s, by)

\* album.get
albumGet(w, s, id, by) ==
    memoUse(w, memoKey(<<"album", id>>), "album.get", "albums.get", id, s, by)

\* track.get
trackGet(w, s, id, by) ==
    memoUse(w, memoKey(<<"track", id>>), "track.get", "tracks.get", id, s, by)

\* The provider's search for a query, a market and a limit.
searchArg(q, market, limit) == memoKey(<<q, market, ToString(limit)>>)

\* search.query(sdk, q, market, searchQueryLimit): the key is built from q alone.
searchQuery(w, s, q, market, limit, by) ==
    memoUse(w, memoKey(<<"search", q>>), "search.query", "search",
            searchArg(q, market, limit), s, by)

\* context.get: memo.use(uri, () => getContext(sdk, uri)). For a type getContext
\* does not know, the fetcher resolves to {} without a provider call, and the
\* memo stores it.
contextGet(w, s, uri, by) ==
    LET d == deconstructUri(uri) IN
    IF d.type \in ContextTypes \/ Fresh(w, uri) \/ w.pending[uri] # NoCall
    THEN memoUse(w, uri, "context.get", ContextOp(d.type), d.id, s, by)
    ELSE [st |-> "hit", key |-> uri, val |-> EmptyContext, call |-> NoCall, own |-> TRUE,
          w |-> memoSettle(w, uri, TRUE, EmptyContext)]

\* Mutant: the playback snapshot is fetched through the memo under one fixed key.
infoGet_memo(w, s, by) ==
    IF s = NoSession
    THEN [st |-> "throw", key |-> NoKey, val |-> 0, call |-> NoCall, own |-> FALSE, w |-> w]
    ELSE memoUse(w, SnapshotKey, "info.get", "player.getCurrentlyPlayingTrack", "GB", s, by)

\* info.get, up to its first await: the current-playback call, made directly
\* on the session it is given (a TypeError when that is null).
infoGet(w, s, by) ==
    IF s = NoSession
    THEN [st |-> "throw", key |-> NoKey, val |-> 0, call |-> NoCall, own |-> FALSE, w |-> w]
    ELSE Direct(w, "info.get", "player.getCurrentlyPlayingTrack", "GB", s, by)

\* player.forward: await sdk.player.skipToNext()
playerForward(w, s, by) == Direct(w, "player.forward", "player.skipToNext", "", s, by)

\* queue.get, up to its first await.
queueGet(w, s, by) == Direct(w, "queue.get", "player.getUsersQueue", "", s, by)

\* queue.add, up to its first await: the queue is read first.
queueAdd(w, s, uri, by) == Direct(w, "queue.add", "player.getUsersQueue", uri, s, by)

\* queue.some((item) => item.uri === uri)
inQueue(qu, uri) == \E i \in 1..Len(qu) : qu[i] = uri

\* queue.add, after the read: the item is added when the read did not show it.
queueAddItem(w, s, uri, by) ==
    Direct(w, "queue.add", "player.addItemToPlaybackQueue", uri, s, by)

IsQueueRead(c) == c.op = "player.getUsersQueue"

IsQueueAdd(c) == c.op = "player.addItemToPlaybackQueue"

\* trim.episode / trim.track, by the switch of queue.get's map.
trimItem(uri) ==
    [as |-> IF deconstructUri(uri).type = "episode" THEN "episode" ELSE "track", uri |-> uri]

\* The items queue.get returns for what is playing and the queue:
\* [currently_playing, ...queue].filter(non-null).filter(type not in
\* ['episode', 'track']).map(trim).
queueItems(playing, qu) ==
    LET all == (IF playing = NotPlaying THEN <<>> ELSE <<playing>>) \o qu
        kept == SelectSeq(all, LAMBDA u : deconstructUri(u).type \notin {"episode", "track"})
    IN [i \in 1..Len(kept) |-> trimItem(kept[i])]

\* Whether a call's fetcher is getContext.
IsContextCall(c) == c.via = "context.get"

IsPlaybackCall(c) == c.via = "info.get"

\* ------------------------------------------------------------- requests
NoOut == [kind |-> "none", val |-> 0, ctx |-> NoContext]

Json(v, ctx) == [kind |-> "json", val |-> v, ctx |-> ctx]

\* next(e): the error middleware answers {error: true, message: ERROR.GENERAL}.
Failure(v) == [kind |-> "error", val |-> v, ctx |-> NoContext]

\* sdkProtect's answer: {error: true, message: ERROR.UNAUTHENTICATED}.
Unauthenticated == [kind |-> "unauthenticated", val |-> 0, ctx |-> NoContext]

\* res.json({success})
Success(b) == [kind |-> IF b THEN "success" ELSE "refused", val |-> 0, ctx |-> NoContext]

\* res.json({items}) and res.json({noQueue: true})
Items(list) == [kind |-> "items", val |-> 0, ctx |-> NoContext, items |-> list]

NoQueue == [kind |-> "noQueue", val |-> 0, ctx |-> NoContext]

Routes == {"artist", "search", "info", "skipForward", "add", "queue"}

\* The routes whose reads go through the memo.
CatalogueRoutes == {"artist", "search"}

RouteArgs(route) ==
    CASE route = "artist" -> ArtistIds
      [] route = "search" -> SentQueries
      [] route = "info" -> {"GB"}
      [] route = "add" -> AddUris
      [] route \in {"skipForward", "queue"} -> {""}

\* Where a route's handler is suspended at its first await.
FirstPc(route) ==
    CASE route = "info" -> "playback"
      [] route = "skipForward" -> "command"
      [] route = "add" -> "read"
      [] route = "queue" -> "queue"
      [] OTHER -> "data"

\* GET /artist/:id, up to its first await.
artistRoute(w, s, id) == topTracks(w, s, id, "http")

\* GET /search: a Spotify URL in the search box is looked up by its type and id.
searchRoute(w, s, q) ==
    IF isSpotifyUrl(q)
    THEN LET u == SpotifyUrl(q) IN
         CASE u.type = "track" -> trackGet(w, s, u.id, "http")
           [] u.type = "artist" -> topTracks(w, s, u.id, "http")
           [] u.type = "album" -> albumGet(w, s, u.id, "http")
    ELSE searchQuery(w, s, q, options.market, options.searchQueryLimit, "http")

\* GET /info
infoRoute(w, s) == infoGet(w, s, "http")

\* GET /skipForward, GET /add, GET /queue, up to their first await.
skipForwardRoute(w, s) == playerForward(w, s, "http")

addRoute(w, s, uri) == queueAdd(w, s, uri, "http")

queueRoute(w, s) == queueGet(w, s, "http")

Handler(w, s, route, arg) ==
    CASE route = "artist" -> artistRoute(w, s, arg)
      [] route = "search" -> searchRoute(w, s, arg)
      [] route = "info" -> infoRoute(w, s)
      [] route = "skipForward" -> skipForwardRoute(w, s)
      [] route = "add" -> addRoute(w, s, arg)
      [] route = "queue" -> queueRoute(w, s)

Waiting == BagToSet(reqs)

\* ------------------------------------------------------ broadcast sink
Open == {c \in ClientIds : conn[c] = "open"}

\* No delivery to any socket.
Nothing == [c \in ClientIds |-> <<>>]

\* io.engine.clientsCount
clientsCount == Cardinality(Open)

\* Mutant: the message goes to one socket (socket.emit) instead of to all.
ioEmit_first(sn, m) ==
    [c \in ClientIds |->
        IF conn[c] = "open" /\ \A c2 \in ClientIds : conn[c2] = "open" => c <= c2
        THEN Append(sn[c], m) ELSE sn[c]]

\* io.emit(event, payload): every connection open now receives the message once.
ioEmit(sn, m) ==
    [c \in ClientIds |-> IF conn[c] = "open" THEN Append(sn[c], m) ELSE sn[c]]

\* io.emit('info', info) of the polling callback.
InfoMsg(play, ctx) == [event |-> "info", play |-> play, ctx |-> ctx]

\* io.emit('reload'), sent when the 'system:authenticated' signal is raised.
ReloadMsg == [event |-> "reload", play |-> NoCall, ctx |-> NoContext]

\* commsObject.error(message): the notice the APP_ERROR listener broadcasts
\* when the error middleware has reported ERROR.GENERAL.
ErrorMsg == [event |-> "error", play |-> NoCall, ctx |-> NoContext]

\* req.comms.message(text) / req.comms.error(text): a user-facing notice.
Notice(kind, text) == [event |-> kind, text |-> text]

\* events.system(name): a system lifecycle signal.
Signal(name) == [event |-> "system", name |-> name]

\* events.error(message, err): the EVENT.APP_ERROR signal.
AppError == [event |-> "app:error", name |-> "general"]

\* A publish on the socket server (io) or on the events bus.
Io(m) == [ch |-> "io", msg |-> m]

Bus(m) == [ch |-> "bus", msg |-> m]

\* The messages of a sequence of publishes that go to the sockets, in order.
ioOf(pubs) ==
    LET sel == SelectSeq(pubs, LAMBDA x : x.ch = "io")
    IN [i \in 1..Len(sel) |-> sel[i].msg]

busOf(pubs) ==
    LET sel == SelectSeq(pubs, LAMBDA x : x.ch = "bus")
    IN [i \in 1..Len(sel) |-> sel[i].msg]

\* Mutant: nothing listens to 'system:authenticated'.
onAuthenticated_none == <<>>

\* The listener of 'system:authenticated': io.emit('reload').
onAuthenticated == <<Io(ReloadMsg)>>

\* The error middleware: events.error(ERROR.GENERAL, err), whose APP_ERROR
\* listener calls commsObject.error(message).
onHandlerError == <<Bus(AppError), Io(ErrorMsg)>>

\* Mutant: the signal is published before the notice.
skipForwardPubs_signalFirst ==
    <<Bus(Signal("skippedForward")), Io(Notice("message", "Skipped forward"))>>

\* GET /skipForward, after player.forward: the notice, then the signal.
skipForwardPubs == <<Io(Notice("message", "Skipped forward")), Bus(Signal("skippedForward"))>>

\* GET /add, after queue.add: the notice that fits success, then the signal.
addPubs(success) ==
    << Io(IF success THEN Notice("message", "Added") ELSE Notice("error", "Song already in queue")),
       Bus(Signal("add")) >>

\* The messages of a sequence, each emitted in turn.
RECURSIVE emitAll(_, _)
emitAll(ms, sn) ==
    IF ms = <<>> THEN sn
    ELSE emitAll(Tail(ms), ioEmit(sn, Head(ms)))

\* ------------------------------------------------------- asyncInterval
\* Mutant: a fixed-rate timer (setInterval), armed whatever the callback does.
armedAfterFire_fixedRate == TRUE

\* Mutant: a rejection of the callback escapes and the loop ends.
armedAfterRun_noCatch(failed) == ~failed

\* The timer is not armed again when it fires: the next wake is scheduled only
\* once the callback's promise has settled.
armedAfterFire == FALSE

\* Whether the timer is armed again after a run of the callback has ended; a run
\* that rejected is caught and logged, and the loop goes on.
armedAfterRun(failed) == TRUE

\* --------------------------------------------------------- polling tick
\* Mutant: the audience is not looked at.
pollWake_noGate(w, s, aud) ==
    IF s = NoSession
    THEN [st |-> "skip", key |-> NoKey, val |-> 0, call |-> NoCall, own |-> FALSE, w |-> w]
    ELSE infoGet(w, s, "poll")

\* Mutant: the session slot is not looked at.
pollWake_noSessionCheck(w, s, aud) ==
    IF aud > 0
    THEN infoGet(w, s, "poll")
    ELSE [st |-> "skip", key |-> NoKey, val |-> 0, call |-> NoCall, own |-> FALSE, w |-> w]

\* The callback given to asyncInterval, up to its first await: nothing without
\* a session, nothing without a connected client, otherwise info.get with the
\* session that is current now.
pollWake(w, s, aud) ==
    IF s = NoSession
    THEN [st |-> "skip", key |-> NoKey, val |-> 0, call |-> NoCall, own |-> FALSE, w |-> w]
    ELSE IF aud > 0
    THEN infoGet(w, s, "poll")
    ELSE [st |-> "skip", key |-> NoKey, val |-> 0, call |-> NoCall, own |-> FALSE, w |-> w]

\* --------------------------------------------------------------- actions
\* The state once index.js has run, for the options o given to run and the
\* provider's queue q0.
InitWith(o, q0) ==
    /\ opts = o
    /\ queue = q0
    /\ now = 0
    /\ sdk = NoSession
    /\ store = [k \in AllKeys |-> NoEntry]
    /\ pending = [k \in AllKeys |-> NoCall]
    /\ upstream = {}
    /\ nextCall = 1
    /\ reqs = EmptyBag
    /\ timer = pollingStarted
    /\ running = {}
    /\ conn = [c \in ClientIds |-> "free"]
    /\ delivered = Nothing
    /\ wakes = 0
    /\ ev = [type |-> "start", emits |-> <<>>, pubs |-> <<>>]

\* index.js passes OPTIONS.api ?? {}; the provider's queue starts empty.
Init == InitWith(NoOpts, <<>>)

SetWorld(w) ==
    /\ store' = w.store
    /\ pending' = w.pending
    /\ upstream' = w.upstream
    /\ nextCall' = w.nextCall

\* Time passes.
Advance ==
    /\ now < MaxTime
    /\ now' = now + 1
    /\ ev' = [type |-> "advance", emits |-> <<>>, pubs |-> <<>>]
    /\ delivered' = Nothing
    /\ UNCHANGED <<sdk, memoVars, reqs, pollVars, sinkVars, providerVars, configVars>>

\* The authentication flow installs a new session in the slot, replacing any
\* other (sessions are numbered in the order they are installed), and raises
\* 'system:authenticated', whose listener emits 'reload'.
Authenticate(s) ==
    /\ s = sdk + 1
    /\ sdk' = s
    /\ LET pubs == <<Bus(Signal("authenticated"))>> \o onAuthenticated IN
       /\ ev' = [type |-> "authenticate", sess |-> s, emits |-> ioOf(pubs), pubs |-> pubs]
       /\ delivered' = emitAll(ioOf(pubs), Nothing)
    /\ UNCHANGED <<now, memoVars, reqs, pollVars, sinkVars, providerVars, configVars>>

\* A socket connects (it takes the lowest free slot).
Connect(c) ==
    /\ conn[c] = "free"
    /\ \A c2 \in ClientIds : c2 < c => conn[c2] # "free"
    /\ conn' = [conn EXCEPT ![c] = "open"]
    /\ ev' = [type |-> "connect", c |-> c, emits |-> <<>>, pubs |-> <<>>]
    /\ delivered' = Nothing
    /\ UNCHANGED <<now, sdk, memoVars, reqs, pollVars, providerVars, configVars>>

\* A socket disconnects.
Disconnect(c) ==
    /\ conn[c] = "open"
    /\ conn' = [conn EXCEPT ![c] = "free"]
    /\ delivered' = Nothing
    /\ ev' = [type |-> "disconnect", c |-> c, emits |-> <<>>, pubs |-> <<>>]
    /\ UNCHANGED <<now, sdk, memoVars, reqs, pollVars, providerVars, configVars>>

\* Mutant: the /api router is mounted without the guard.
sdkProtect_open(s) == FALSE

\* sdkProtect: whether the request is answered by the guard (if (!req.sdk)).
sdkProtect(s) == s = NoSession

\* A request for an /api route arrives: the attach middleware captures
\* sdk.current, sdkProtect answers when there is none, otherwise the route's
\* handler runs to its first await (or to its response, on a cache hit).
ArriveWithin(lim, route, arg) ==
    /\ BagCardinality(reqs) < MaxReq
    /\ LET s == sdk IN
       IF sdkProtect(s)
       THEN /\ ev' = [type |-> "arrive", route |-> route, arg |-> arg, sess |-> s,
                      key |-> NoKey, entry |-> NoEntry, joined |-> NoCall, calls |-> {},
                      call |-> NoCall, out |-> Unauthenticated, emits |-> <<>>,
                      pubs |-> <<>>]
            /\ UNCHANGED <<memoVars, reqs>>
       ELSE LET res == Handler(World, s, route, arg) IN
            /\ res.w.nextCall <= lim + 1
            /\ SetWorld(res.w)
            /\ reqs' = IF res.st = "hit" THEN reqs
                       ELSE reqs (+) SetToBag({[pc |-> FirstPc(route),
                                                route |-> route, arg |-> arg,
                                                call |-> res.call, play |-> NoCall,
                                                own |-> res.own]})
            /\ ev' = [type |-> "arrive", route |-> route, arg |-> arg, sess |-> s,
                      key |-> res.key,
                      entry |-> IF res.key = NoKey THEN NoEntry ELSE store[res.key],
                      joined |-> IF res.key = NoKey THEN NoCall ELSE pending[res.key],
                      calls |-> res.w.upstream \ upstream,
                      call |-> res.call,
                      out |-> IF res.st = "hit" THEN Json(res.val, NoContext) ELSE NoOut,
                      emits |-> <<>>, pubs |-> <<>>]
    /\ delivered' = Nothing
    /\ UNCHANGED <<now, sdk, pollVars, sinkVars, providerVars, configVars>>

Arrive(route, arg) == ArriveWithin(MaxCalls, route, arg)

\* A caller inside the process (a plugin, which is handed SpotifyInteract and
\* the session slot) calls search.query with a market of its choice.
Invoke(q, market) ==
    /\ sdk # NoSession
    /\ LET res == searchQuery(World, sdk, q, market, options.searchQueryLimit, "plugin") IN
       /\ res.w.nextCall <= MaxCalls + 1
       /\ SetWorld(res.w)
       /\ ev' = [type |-> "invoke", via |-> "search.query",
                 arg |-> searchArg(q, market, options.searchQueryLimit),
                 key |-> res.key, joined |-> pending[res.key], st |-> res.st,
                 calls |-> res.w.upstream \ upstream, call |-> res.call,
                 emits |-> <<>>, pubs |-> <<>>]
    /\ delivered' = Nothing
    /\ UNCHANGED <<now, sdk, reqs, pollVars, sinkVars, providerVars, configVars>>

\* What the provider may answer to a call.
Responses(c) ==
    IF IsPlaybackCall(c)
    THEN {"fail", "null"} \cup ContextUris
    ELSE IF c.via = "queue.get"
    THEN {"fail", "null"} \cup Playing
    ELSE IF c.via = "queue.add" /\ IsQueueRead(c)
    THEN {"ok", "null", "fail"}
    ELSE {"ok", "fail"}

\* A request that awaited call c, continued with the fetcher's outcome res; cont
\* is the call the function goes on to (info.get's context.get when the playback
\* call gave a track, queue.add's addItemToPlaybackQueue). The result is the
\* request still waiting (out = NoOut) or its response, with what the handler
\* publishes before it responds.
resumeReq(q, c, resp, res, cont) ==
    CASE q.pc = "data" ->
           [q |-> q, out |-> IF res.ok THEN Json(res.val, NoContext) ELSE Failure(res.val),
            pubs |-> <<>>]
      [] q.pc = "context" ->
           [q |-> q, out |-> IF res.ok THEN Json(q.play, res.val) ELSE Failure(res.val),
            pubs |-> <<>>]
      [] q.pc = "playback" ->
           IF resp = "fail" THEN [q |-> q, out |-> Failure(c.id), pubs |-> <<>>]
           ELSE IF resp = "null" THEN [q |-> q, out |-> Json(c.id, NoContext), pubs |-> <<>>]
           ELSE IF cont.st = "hit" THEN [q |-> q, out |-> Json(c.id, cont.val), pubs |-> <<>>]
           ELSE [q |-> [q EXCEPT !.pc = "context", !.call = cont.call, !.play = c.id,
                                 !.own = cont.own],
                 out |-> NoOut, pubs |-> <<>>]
      [] q.pc = "command" ->
           \* GET /skipForward after player.forward
           IF resp = "fail" THEN [q |-> q, out |-> Failure(c.id), pubs |-> <<>>]
           ELSE [q |-> q, out |-> Success(TRUE), pubs |-> skipForwardPubs]
      [] q.pc = "read" ->
           \* queue.add after the read: const { queue } = ... throws on null
           IF resp # "ok" THEN [q |-> q, out |-> Failure(c.id), pubs |-> <<>>]
           ELSE IF inQueue(queue, q.arg)
           THEN [q |-> q, out |-> Success(FALSE), pubs |-> addPubs(FALSE)]
           ELSE [q |-> [q EXCEPT !.pc = "add", !.call = cont.call, !.own = cont.own],
                 out |-> NoOut, pubs |-> <<>>]
      [] q.pc = "add" ->
           IF resp = "fail" THEN [q |-> q, out |-> Failure(c.id), pubs |-> <<>>]
           ELSE [q |-> q, out |-> Success(TRUE), pubs |-> addPubs(TRUE)]
      [] q.pc = "queue" ->
           IF resp = "fail" THEN [q |-> q, out |-> Failure(c.id), pubs |-> <<>>]
           ELSE IF resp = "null" THEN [q |-> q, out |-> NoQueue, pubs |-> <<>>]
           ELSE [q |-> q, out |-> Items(queueItems(resp, queue)), pubs |-> <<>>]

\* How an execution of the polling callback that awaited call c goes on:
\* "wait" (now awaiting context.get), "emit" (info.get returned) or "fail".
resumeTick(t, c, resp, res, cont) ==
    CASE t.pc = "context" ->
           IF res.ok
           THEN [st |-> "emit", msg |-> InfoMsg(t.play, res.val), t |-> t]
           ELSE [st |-> "fail", msg |-> InfoMsg(t.play, NoContext), t |-> t]
      [] t.pc = "playback" ->
           IF resp = "fail"
           THEN [st |-> "fail", msg |-> InfoMsg(c.id, NoContext), t |-> t]
           ELSE IF resp = "null"
           THEN [st |-> "emit", msg |-> InfoMsg(c.id, NoContext), t |-> t]
           ELSE IF cont.st = "hit"
           THEN [st |-> "emit", msg |-> InfoMsg(c.id, cont.val), t |-> t]
           ELSE [st |-> "wait", msg |-> InfoMsg(c.id, NoContext),
                 t |-> [t EXCEPT !.pc = "context", !.call = cont.call, !.play = c.id,
                                 !.own = cont.own]]

\* A sequence of publishes made n times over.
RECURSIVE repeat(_, _)
repeat(n, ps) == IF n = 0 THEN <<>> ELSE ps \o repeat(n - 1, ps)

\* What the handlers that responded published (a call awaited by a handler
\* that publishes is awaited by that handler alone).
handlerPubs(resumed) ==
    IF \E x \in resumed : x.pubs # <<>>
    THEN (CHOOSE x \in resumed : x.pubs # <<>>).pubs
    ELSE <<>>

\* Mutant: the callback emits 'info' also when info.get rejected.
publishes_always(o) == o.st # "wait"

\* Whether an execution of the polling callback reaches io.emit('info', info):
\* only when info.get returned.
publishes(o) == o.st = "emit"

\* A set of 'info' messages in the order they are emitted (lowest playback
\* call first).
RECURSIVE inOrder(_)
inOrder(ms) ==
    IF ms = {} THEN <<>>
    ELSE LET m == CHOOSE x \in ms : \A y \in ms : x.play <= y.play IN
         <<m>> \o inOrder(ms \ {m})

\* The provider answers call c. The memo settles the key's resolution, and every
\* function awaiting it continues: a handler responds (a failure goes through
\* the error middleware, whose report is broadcast as an error notice),
\* info.get goes on to context.get, the polling callback emits 'info' and the
\* interval is re-armed.
SettleWithin(lim, c, resp) ==
    /\ c \in upstream
    /\ resp \in Responses(c)
    /\ LET res == IF IsContextCall(c) THEN getContextResult(resp = "ok", c.id)
                  ELSE plainResult(resp # "fail", c.id)
           w0 == [World EXCEPT !.upstream = @ \ {c}]
           w1 == memoSettle(w0, c.key, res.ok, res.val)
           cont == IF IsPlaybackCall(c) /\ resp \in ContextUris
                   THEN contextGet(w1, c.sess, resp, c.by)
                   ELSE IF c.via = "queue.add" /\ IsQueueRead(c) /\ resp = "ok"
                           /\ ~inQueue(queue, c.arg)
                   THEN queueAddItem(w1, c.sess, c.arg, c.by)
                   ELSE [st |-> "none", key |-> NoKey, val |-> 0, call |-> NoCall,
                         own |-> FALSE, w |-> w1]
           wokenReqs == {q \in Waiting : settles(c, res.ok, q)}
           resumed == {resumeReq(q, c, resp, res, cont) : q \in wokenReqs}
           wokenTicks == {t \in running : settles(c, res.ok, t)}
           outs == {resumeTick(t, c, resp, res, cont) : t \in wokenTicks}
           ended == {o \in outs : o.st # "wait"}
           failedReqs == {q \in wokenReqs : resumeReq(q, c, resp, res, cont).out.kind = "error"}
           infos == inOrder({o.msg : o \in {x \in outs : publishes(x)}})
           pubs == [i \in 1..Len(infos) |-> Io(infos[i])]
                   \o repeat(BagCardinality([q \in failedReqs |-> reqs[q]]), onHandlerError)
                   \o handlerPubs(resumed)
           msgs == ioOf(pubs)
       IN
       /\ cont.w.nextCall <= lim + 1
       /\ queue' = IF IsQueueAdd(c) /\ resp = "ok" THEN Append(queue, c.arg) ELSE queue
       /\ SetWorld(cont.w)
       /\ reqs' = [q \in Waiting \ wokenReqs |-> reqs[q]]
                  (+) SetToBag({x.q : x \in {y \in resumed : y.out = NoOut}})
       /\ running' = (running \ wokenTicks) \cup {o.t : o \in {x \in outs : x.st = "wait"}}
       /\ delivered' = emitAll(msgs, Nothing)
       /\ timer' = IF ended = {} THEN timer
                   ELSE (timer \/ \E o \in ended : armedAfterRun(o.st = "fail"))
       /\ ev' = [type |-> "settle", call |-> c, resp |-> resp, res |-> res,
                 before |-> IF c.key = NoKey THEN NoEntry ELSE store[c.key],
                 outs |-> {x \in resumed : x.out # NoOut},
                 n |-> BagCardinality([q \in wokenReqs |-> reqs[q]]),
                 calls |-> cont.w.upstream \ w1.upstream,
                 emits |-> msgs,
                 pubs |-> pubs,
                 ticks |-> wokenTicks,
                 ended |-> IF ended = {} THEN "none"
                           ELSE IF \E o \in ended : o.st = "fail" THEN "failed"
                           ELSE "emitted"]
    /\ UNCHANGED <<now, sdk, conn, wakes, configVars>>

Settle(c, resp) == SettleWithin(MaxCalls, c, resp)

\* asyncInterval's timer fires and the polling callback runs to its first await.
TimerFire ==
    /\ timer
    /\ LET res == pollWake(World, sdk, clientsCount) IN
       /\ res.w.nextCall <= MaxCalls + 1
       /\ SetWorld(res.w)
       /\ running' = IF res.st = "wait"
                     THEN running \cup {[pc |-> "playback", call |-> res.call,
                                         play |-> NoCall, own |-> TRUE]}
                     ELSE running
       /\ timer' = IF res.st = "wait" THEN armedAfterFire
                   ELSE (armedAfterFire \/ armedAfterRun(res.st = "throw"))
       /\ wakes' = 1 - wakes
       /\ ev' = [type |-> "wake", emits |-> <<>>, pubs |-> <<>>,
                 calls |-> res.w.upstream \ upstream,
                 ended |-> CASE res.st = "wait" -> "none"
                             [] res.st = "skip" -> "skipped"
                             [] res.st = "throw" -> "failed"]
    /\ delivered' = Nothing
    /\ UNCHANGED <<now, sdk, reqs, sinkVars, providerVars, configVars>>

\* The catalogue environment: requests for the catalogue routes arrive while
\* time passes. (The polling tick and /info use the playback call and the
\* context keys only, which no catalogue route touches: see PollNext.)
Next ==
    \/ Advance
    \/ \E s \in Sessions : Authenticate(s)
    \/ \E route \in CatalogueRoutes : \E arg \in RouteArgs(route) : Arrive(route, arg)
    \/ \E c \in upstream : \E resp \in Responses(c) : Settle(c, resp)

Spec == Init /\ [][Next]_vars

\* The polling environment: sockets connect and disconnect, the interval's
\* timer fires, and /info requests arrive.
PollNext ==
    \/ \E s \in Sessions : Authenticate(s)
    \/ \E c \in ClientIds : Connect(c)
    \/ \E c \in ClientIds : Disconnect(c)
    \/ Arrive("info", "GB")
    \/ \E c \in upstream : \E resp \in Responses(c) : Settle(c, resp)
    \/ TimerFire

PollSpec == Init /\ [][PollNext]_vars

\* The timer fires when it is armed, and the provider answers every call
\* (with a value, or with a failure or a timeout).
SettleSome == \E c \in upstream : \E resp \in Responses(c) : Settle(c, resp)

\* The polling loop on its own: sessions are installed, sockets come and go,
\* the timer fires and the provider answers, with no HTTP request.
LoopNext ==
    \/ \E s \in Sessions : Authenticate(s)
    \/ \E c \in ClientIds : Connect(c)
    \/ \E c \in ClientIds : Disconnect(c)
    \/ \E c \in upstream : \E resp \in Responses(c) : Settle(c, resp)
    \/ TimerFire

FairLoopSpec == Init /\ [][LoopNext]_vars /\ WF_vars(TimerFire) /\ WF_vars(SettleSome)

\* ---------------------------------------------------------------- claims
CatalogueCalls == {c \in upstream : ~IsPlaybackCall(c)}

\* C1: single-flight. For every key at most one fetcher invocation is in
\* flight; callers of the same logical request that wait at the same time wait
\* on one and the same provider call, which is in flight; a caller that arrives
\* while a resolution is in flight starts no call, and one that finds neither a
\* fresh value nor a resolution in flight starts exactly one.
SingleFlight ==
    /\ \A c1, c2 \in CatalogueCalls :
           (c1.via = c2.via /\ c1.arg = c2.arg) => c1 = c2
    /\ \A c1, c2 \in upstream : (c1.key # NoKey /\ c1.key = c2.key) => c1 = c2
    /\ \A q1, q2 \in Waiting :
           (q1.pc = "data" /\ q2.pc = "data" /\ q1.route = q2.route /\ q1.arg = q2.arg)
               => q1.call = q2.call
    /\ \A q \in Waiting : \E c \in upstream : c.id = q.call
    /\ (ev.type = "arrive" /\ ev.route # "info" /\ ev.sess # NoSession) =>
           /\ ev.joined # NoCall => (ev.calls = {} /\ ev.call = ev.joined)
           /\ (ev.joined = NoCall /\ ev.out = NoOut) => Cardinality(ev.calls) = 1

\* Two callers of one logical request are waiting on the same call.
SingleFlightWitness ==
    \E q \in Waiting : q.pc = "data" /\ ~q.own /\ \E c \in upstream : c.id = q.call

\* C2: same outcome. When a fetcher settles, every caller of its resolution
\* gets the fetcher's outcome: the same value when it succeeded, the same
\* failure when it failed; and no caller is left waiting on a call that is no
\* longer in flight.
SameOutcome ==
    /\ ev.type = "settle" =>
           \A x \in ev.outs :
               x.q.pc = "data" =>
                   x.out = IF ev.res.ok THEN Json(ev.res.val, NoContext)
                           ELSE Failure(ev.res.val)
    /\ \A q \in Waiting : \E c \in upstream : c.id = q.call

\* A failed fetch has just been reported to two callers.
SameOutcomeWitness ==
    /\ ev.type = "settle"
    /\ ~ev.res.ok
    /\ ev.n >= 2
    /\ Cardinality(ev.outs) >= 2

\* C3: time-to-live. A resolve that finds a stored value strictly before its
\* expiry answers with that value and starts no call; a resolve after the expiry
\* does not answer with it: it starts the fetcher again (or joins the resolution
\* another caller started after the expiry); a successful resolution stores its
\* value with expiresAt = now + TTL.
TimeToLive ==
    /\ (ev.type = "arrive" /\ ev.key # NoKey /\ ev.entry.has) =>
           /\ now < ev.entry.expiresAt =>
                  (ev.out = Json(ev.entry.value, NoContext) /\ ev.calls = {})
           /\ now > ev.entry.expiresAt =>
                  /\ ev.out = NoOut
                  /\ \E c \in upstream : c.id = ev.call /\ c.key = ev.key
                  /\ ev.joined = NoCall => ev.calls = {c \in upstream : c.id = ev.call}
    /\ (ev.type = "settle" /\ ev.call.key # NoKey /\ ev.res.ok) =>
           store[ev.call.key] =
               [has |-> TRUE, value |-> ev.call.id, expiresAt |-> now + CacheTtl]

\* A caller has found an expired value and started the fetcher again.
TimeToLiveWitness ==
    /\ ev.type = "arrive"
    /\ ev.key # NoKey
    /\ ev.entry.has
    /\ now > ev.entry.expiresAt
    /\ ev.calls # {}

\* C4: no negative caching. When the provider call behind a cached lookup
\* fails, the key's in-flight marker is cleared and the key's entry is what it
\* was before the lookup: nothing is stored.
NoNegativeCaching ==
    (ev.type = "settle" /\ ev.call.key # NoKey /\ ev.resp = "fail") =>
        (pending[ev.call.key] = NoCall /\ store[ev.call.key] = ev.before)

PollCalls == {c \in upstream : c.by = "poll"}

\* C5: audience gating. A wake of the polling callback that finds no socket
\* connected starts no provider call, broadcasts nothing and ends at once; a wake
\* that finds a session and at least one socket connected starts exactly one
\* call, the current-playback call; the poll has no call in flight but for an execution.
AudienceGating ==
    /\ ev.type = "wake" =>
           /\ clientsCount = 0 =>
                  (ev.calls = {} /\ ev.ended = "skipped" /\ delivered = Nothing)
           /\ (clientsCount >= 1 /\ sdk # NoSession) =>
                  (Cardinality(ev.calls) = 1 /\ \A c \in ev.calls : IsPlaybackCall(c))
    /\ \A c \in PollCalls : \E t \in running : t.call = c.id

\* A wake has just skipped because nobody is connected, though a session exists.
AudienceGatingWitness ==
    /\ ev.type = "wake"
    /\ sdk # NoSession
    /\ clientsCount = 0
    /\ ev.ended = "skipped"

\* C6: non-overlap. At most one execution of the polling callback is in flight,
\* and the timer is not armed while one is.
NonOverlap ==
    /\ Cardinality(running) <= 1
    /\ running # {} => ~timer

\* An execution is awaiting the provider, and other events go by meanwhile.
NonOverlapWitness ==
    /\ running # {}
    /\ ~timer
    /\ ev.type \in {"connect", "disconnect", "arrive", "authenticate"}

TickEnded == ev.type \in {"wake", "settle"} /\ ev.ended # "none"

\* C7: the poll loop goes on. Whenever an execution of the polling callback has
\* ended (skipped, emitted or failed), the callback wakes again later, as long
\* as the model's budget of provider calls is not used up.
PollLoopGoesOn ==
    \A b \in {0, 1} :
        [](( TickEnded /\ wakes = b) => <>(wakes # b \/ nextCall > MaxCalls))

\* An execution has just failed and the timer is armed again.
PollLoopGoesOnWitness ==
    /\ ev.type = "settle"
    /\ ev.ended = "failed"
    /\ timer
    /\ nextCall <= MaxCalls

ContextWaiters == {q \in Waiting : q.pc = "context"} \cup {t \in running : t.pc = "context"}

Count(sq, m) == Cardinality({i \in 1..Len(sq) : sq[i] = m})

\* C9: broadcast fan-out. The messages an event emits ('info', 'reload', an
\* error notice) are delivered to every socket connected at that moment, each
\* exactly once and in the order emitted, and to no other socket; an event that
\* emits nothing (a socket connecting later among them) delivers nothing: the
\* sink keeps no message.
FanOut ==
    /\ \A c \in ClientIds :
           /\ \A i \in 1..Len(ev.emits) :
                  Count(delivered[c], ev.emits[i]) =
                      IF c \in Open THEN Count(ev.emits, ev.emits[i]) ELSE 0
           /\ c \in Open => delivered[c] = ev.emits
           /\ c \notin Open => delivered[c] = <<>>
    /\ ev.type \in {"connect", "disconnect", "arrive", "wake", "advance", "start"}
           => delivered = Nothing

\* A message has just been emitted to two connected sockets.
FanOutWitness ==
    /\ ev.type = "settle"
    /\ \E i \in 1..Len(ev.emits) : ev.emits[i].event = "info"
    /\ Cardinality(Open) >= 2

\* C10: no-session skip. A wake that finds no session starts no provider call,
\* broadcasts nothing and ends without error; a wake that finds a session and an
\* audience calls the provider on the session current at that wake, and the
\* context lookup of that execution uses the session of its playback call.
NoSessionSkip ==
    /\ ev.type = "wake" =>
           /\ sdk = NoSession =>
                  (ev.calls = {} /\ ev.ended = "skipped" /\ delivered = Nothing)
           /\ \A c \in ev.calls : c.sess = sdk /\ c.sess # NoSession
    /\ (ev.type = "settle" /\ ev.call.by = "poll") =>
           \A c \in ev.calls : c.by = "poll" /\ c.sess = ev.call.sess
    /\ \A c \in PollCalls : c.sess # NoSession

\* A wake has just skipped for want of a session, though a socket is connected.
NoSessionSkipWitness ==
    /\ ev.type = "wake"
    /\ sdk = NoSession
    /\ clientsCount >= 1
    /\ ev.ended = "skipped"

\* C11, as claimed: a handler's failure is answered to its caller with the
\* generic failure response, and no notice is broadcast to the connected
\* sockets for it.
FailureNotBroadcast ==
    (ev.type = "settle" /\ \E x \in ev.outs : x.out.kind = "error") =>
        /\ \A x \in ev.outs : x.out = Failure(ev.call.id)
        /\ \A c \in ClientIds : \A i \in 1..Len(delivered[c]) : delivered[c][i] # ErrorMsg

\* The command environment: sockets connect and /skipForward requests arrive.
CmdNext ==
    \/ \E s \in Sessions : Authenticate(s)
    \/ \E c \in ClientIds : Connect(c)
    \/ \E c \in ClientIds : Disconnect(c)
    \/ Arrive("skipForward", "")
    \/ \E c \in upstream : \E resp \in Responses(c) : Settle(c, resp)

CmdSpec == Init /\ [][CmdNext]_vars

\* C12: publish order. What an event publishes reaches every connected socket
\* in the order published, and the bus's listeners likewise; /skipForward
\* publishes its notice before its 'skippedForward' signal, so that an
\* observer of both channels sees the notice first.
PublishOrder ==
    /\ \A c \in Open : delivered[c] = ioOf(ev.pubs)
    /\ (ev.type = "settle" /\ ev.call.via = "player.forward" /\ ev.resp = "ok") =>
           /\ \E i, j \in 1..Len(ev.pubs) :
                  /\ i < j
                  /\ ev.pubs[i] = Io(Notice("message", "Skipped forward"))
                  /\ ev.pubs[j] = Bus(Signal("skippedForward"))
           /\ \A i, j \in 1..Len(ev.pubs) :
                  (ev.pubs[i].ch = "io" /\ ev.pubs[j].ch = "bus") => i < j
           /\ busOf(ev.pubs) = <<Signal("skippedForward")>>
    /\ (ev.type = "settle" /\ ev.call.via = "player.forward" /\ ev.resp = "fail") =>
           \A i \in 1..Len(ev.pubs) : ev.pubs[i].msg \notin
               {Notice("message", "Skipped forward"), Signal("skippedForward")}

\* A skip has just been answered while two sockets are connected.
PublishOrderWitness ==
    /\ ev.type = "settle"
    /\ ev.call.via = "player.forward"
    /\ ev.resp = "ok"
    /\ Cardinality(Open) >= 2
    /\ \A c \in Open : delivered[c] = <<Notice("message", "Skipped forward")>>

\* The polling environment, for each options object run may be given.
OptInit == \E o \in GivenOpts : InitWith(o, <<>>)

OptSpec == OptInit /\ [][PollNext]_vars

\* C13: the polling option. With centralisedPolling false the interval is never
\* started: no wake, no execution, no call by the poll and no 'info' message,
\* ever; with the option absent it is true, the loop runs, and the interval
\* absent is 5000.
PollingOption ==
    /\ ("centralisedPolling" \in DOMAIN opts /\ ~opts.centralisedPolling) =>
           /\ ~timer
           /\ running = {}
           /\ ev.type # "wake"
           /\ PollCalls = {}
           /\ \A i \in 1..Len(ev.pubs) : ev.pubs[i].msg.event # "info"
           /\ \A c \in ClientIds : \A i \in 1..Len(delivered[c]) :
                  delivered[c][i].event # "info"
    /\ "centralisedPolling" \notin DOMAIN opts =>
           (options.centralisedPolling /\ (timer \/ running # {}))
    /\ "centralisedPollingTimer" \notin DOMAIN opts => options.centralisedPollingTimer = 5000

\* With polling switched off, a /info request has been answered while a socket
\* is connected.
PollingOptionWitness ==
    /\ "centralisedPolling" \in DOMAIN opts
    /\ ~opts.centralisedPolling
    /\ clientsCount >= 1
    /\ ev.type = "settle"
    /\ \E x \in ev.outs : x.out.kind = "json"

\* The library environment: /search requests arrive while a caller inside the
\* process uses search.query with markets of its own.
LibNext ==
    \/ Advance
    \/ \E s \in Sessions : Authenticate(s)
    \/ \E q \in PlainQueries : Arrive("search", q)
    \/ \E q \in PlainQueries : \E market \in Markets : Invoke(q, market)
    \/ \E c \in upstream : \E resp \in Responses(c) : Settle(c, resp)

LibSpec == Init /\ [][LibNext]_vars

AuthenticatedPush ==
    /\ \A i \in 1..Len(ev.pubs) :
           ev.pubs[i] = Bus(Signal("authenticated")) =>
               /\ i < Len(ev.pubs)
               /\ ev.pubs[i + 1] = Io(ReloadMsg)
    /\ ev.type = "authenticate" =>
           /\ busOf(ev.pubs) = <<Signal("authenticated")>>
           /\ \A c \in ClientIds :
                  delivered[c] = IF c \in Open THEN <<ReloadMsg>> ELSE <<>>
    /\ ev.type # "authenticate" =>
           \A c \in ClientIds : \A i \in 1..Len(delivered[c]) : delivered[c][i] # ReloadMsg

\* A session has just been installed while one socket is connected and another
\* slot is free.
AuthenticatedPushWitness ==
    /\ ev.type = "authenticate"
    /\ \E c \in ClientIds : c \in Open /\ delivered[c] = <<ReloadMsg>>
    /\ \E c \in ClientIds : c \notin Open

\* The 'info' messages among the messages of a sequence.
InfosOf(ms) == SelectSeq(ms, LAMBDA m : m.event = "info")

\* C16: the poll's broadcast. Only the settling of a call an execution of the
\* polling callback awaits emits 'info', at most once; it does so exactly when
\* info.get has returned, with the snapshot info.get returned (the execution's
\* own playback answer and the context looked up for it); a wake that skips and
\* an execution whose info.get rejected emit nothing; and 'info' goes to the
\* sockets directly, never over the bus.
TickBroadcast ==
    /\ ev.type = "wake" => ev.pubs = <<>>
    /\ ev.type # "settle" => InfosOf(ev.emits) = <<>>
    /\ \A i \in 1..Len(ev.pubs) : ev.pubs[i].msg.event = "info" => ev.pubs[i].ch = "io"
    /\ ev.type = "settle" =>
           /\ Len(InfosOf(ev.emits)) = IF ev.ended = "emitted" THEN 1 ELSE 0
           /\ ev.ended # "none" => Cardinality(ev.ticks) = 1
           /\ \A i \in 1..Len(InfosOf(ev.emits)) :
                  LET m == InfosOf(ev.emits)[i] IN
                  \E t \in ev.ticks :
                      /\ t.call = ev.call.id
                      /\ t.pc = "playback" =>
                             /\ ev.call.by = "poll"
                             /\ ev.resp # "fail"
                             /\ m.play = ev.call.id
                             /\ m.ctx = IF ev.resp = "null" THEN NoContext
                                        ELSE store[ev.resp].value
                      /\ t.pc = "context" =>
                             /\ ev.res.ok
                             /\ m.play = t.play
                             /\ m.ctx = ev.res.val

\* An execution has just emitted a snapshot with its context to a socket.
TickBroadcastWitness ==
    /\ ev.type = "settle"
    /\ ev.ended = "emitted"
    /\ \E t \in ev.ticks : t.pc = "context"
    /\ \E c \in Open : Len(InfosOf(delivered[c])) = 1

\* The queue environment: /add and /queue requests arrive, for each queue the
\* provider may hold at the start.
QueueInit == \E q0 \in InitialQueues : InitWith(NoOpts, q0)

QueueNext ==
    \/ \E s \in Sessions : Authenticate(s)
    \/ \E uri \in AddUris : ArriveWithin(MaxQueueCalls, "add", uri)
    \/ ArriveWithin(MaxQueueCalls, "queue", "")
    \/ \E c \in upstream : \E resp \in Responses(c) : SettleWithin(MaxQueueCalls, c, resp)

QueueSpec == QueueInit /\ [][QueueNext]_vars

\* C17, as claimed: queue.add answers success: false and adds nothing when the
\* read shows the uri in the queue, otherwise it makes one add call and answers
\* success: true when that succeeded; and so no uri is in the queue twice.
AddedAtMostOnce ==
    /\ (ev.type = "settle" /\ ev.call.via = "queue.add" /\ IsQueueRead(ev.call)
            /\ ev.resp = "ok") =>
           IF inQueue(queue, ev.call.arg)
           THEN ev.calls = {} /\ \A x \in ev.outs : x.out = Success(FALSE)
           ELSE /\ Cardinality(ev.calls) = 1
                /\ \A c \in ev.calls : IsQueueAdd(c) /\ c.arg = ev.call.arg
    /\ (ev.type = "settle" /\ IsQueueAdd(ev.call) /\ ev.resp = "ok") =>
           \A x \in ev.outs : x.out = Success(TRUE)
    /\ \A u \in AddUris : Count(queue, u) <= 1

\* The list the claim describes: what is playing (if anything) followed by the
\* queued items, every track and episode among them, each trimmed as its type.
ListedItems(playing, qu) ==
    LET all == (IF playing = NotPlaying THEN <<>> ELSE <<playing>>) \o qu
        kept == SelectSeq(all, LAMBDA u : deconstructUri(u).type \in {"episode", "track"})
    IN [i \in 1..Len(kept) |->
           [as |-> deconstructUri(kept[i]).type, uri |-> kept[i]]]

\* C19, as claimed: queue.get answers {noQueue: true} when the provider reports
\* no queue, and otherwise the list of the tracks and episodes among what is
\* playing and the queued items, in that order, each trimmed as its type.
QueueListed ==
    (ev.type = "settle" /\ ev.call.via = "queue.get" /\ ev.resp # "fail") =>
        \A x \in ev.outs :
            x.out = IF ev.resp = "null" THEN NoQueue
                    ELSE Items(ListedItems(ev.resp, queue))

====
